---- MODULE Spec2Model ----
(***************************************************************************)
(* gunsub (src/gunsub.py): poll the GitHub notification feed, unsubscribe  *)
(* from threads the user is only implicitly subscribed to, optionally send *)
(* an email per unsubscribe, and checkpoint the start time of every        *)
(* iteration in ./next-since.                                              *)
(*                                                                         *)
(* Python strings that are matched or split are modelled as sequences of   *)
(* one-character strings.  Times are integers in milliseconds, relative to *)
(* an epoch base that is a whole number of seconds.  The GitHub service,   *)
(* the SMTP server and the wall clock are the environment: their answers   *)
(* are nondeterministic choices.                                           *)
(***************************************************************************)
EXTENDS Integers, Sequences, FiniteSets, TLC

VARIABLES
    argv,        \* sys.argv as parse_args sees it (flags only)
    environ,     \* os.environ entries parse_args reads
    args,        \* the Namespace parse_args returns (module global `args`)
    pc,          \* position of the process in main / gunsub
    clock,       \* time.time() of the environment, in ms
    stateFile,   \* content of ./next-since (None: no such file)
    since,       \* main's `since`
    next_since,  \* main's `next_since`
    page,        \* gunsub's `page`
    remaining,   \* notifications of the current page not yet examined
    cur,         \* gunsub's `notification` (the one examined last)
    count,       \* gunsub's `count`
    verdict,     \* which branch of the filter chain `cur` took
    effects,     \* requests and emails issued for `cur`, in order
    query,       \* the last /notifications request: page and since_qs
    outcome      \* how the most recent finished iteration ended

vars == <<argv, environ, args, pc, clock, stateFile, since, next_since, page,
          remaining, cur, count, verdict, effects, query, outcome>>

----------------------------------------------------------------------------
(* Bounds of the model *)

MaxPages == 1      \* pages of notifications the service serves per iteration
MaxPerPage == 2    \* notifications per page
MaxClock == 2996   \* last instant of the wall clock (ms)

(* Python's None *)
None == -1

(* time.time() counts seconds; strftime('%FT%TZ') and '%s' keep whole      *)
(* seconds.  str(float) keeps 12 significant digits: for a current epoch   *)
(* time that is 10 integer digits and 2 decimals, i.e. steps of 10 ms.     *)
MsPerSec == 1000
StrStep == 10

(* The instants the clock visits: on a second and 4 ms before one.  The     *)
(* process starts at StartClock; an earlier run started at EarlierStart.    *)
Fractions == {0, MsPerSec - 4}
Instants == {t \in 0..MaxClock : (t % MsPerSec) \in Fractions}
EarlierStart == MsPerSec - 4
StartClock == 2 * MsPerSec - 4

----------------------------------------------------------------------------
(* Strings *)

octo_star     == <<"o","c","t","o","/","*">>
widgets       == <<"w","i","d","g","e","t","s">>
noisy_repo    == <<"n","o","i","s","y","-","r","e","p","o">>
octo_widgets  == <<"o","c","t","o","/">> \o widgets
other_widgets == <<"o","t","h","e","r","/">> \o widgets
octo_noisy    == <<"o","c","t","o","/">> \o noisy_repo
Empty         == << >>

(* x in s, for a character x and a string s *)
In(x, s) == \E i \in 1..Len(s) : s[i] = x

(* s.split(',') *)
RECURSIVE SplitFrom(_, _)
SplitFrom(s, acc) ==
    IF s = << >> THEN <<acc>>
    ELSE IF Head(s) = "," THEN <<acc>> \o SplitFrom(Tail(s), << >>)
    ELSE SplitFrom(Tail(s), Append(acc, Head(s)))

split(s) == SplitFrom(s, << >>)

(* fnmatch.fnmatchcase(name, pat) for patterns without '[': '*' matches any *)
(* run of characters ('/' included), '?' any one character, anything else   *)
(* itself; the whole name must match.                                       *)
RECURSIVE fnmatchcase(_, _)
fnmatchcase(name, pat) ==
    IF pat = << >> THEN name = << >>
    ELSE IF Head(pat) = "*"
         THEN \/ fnmatchcase(name, Tail(pat))
              \/ name # << >> /\ fnmatchcase(Tail(name), pat)
    ELSE /\ name # << >>
         /\ Head(pat) = "?" \/ Head(pat) = Head(name)
         /\ fnmatchcase(Tail(name), Tail(pat))

----------------------------------------------------------------------------
(* Notifications as the service serves them (spec section 3): a record with *)
(* an id, a subject type, a reason and a repository; or, unexpectedly, a    *)
(* bare string (what iterating over an error object yields).  A thread      *)
(* belongs to one repository: its id is the repository's full name.         *)

SubjectTypes == {"Issue", "Release", "Discussion"}
Reasons == {"subscribed", "mentioned"}
Repositories ==
    { [name |-> widgets,    full_name |-> octo_widgets],
      [name |-> widgets,    full_name |-> other_widgets],
      [name |-> noisy_repo, full_name |-> octo_noisy] }

Notifications ==
    { [kind |-> "dict", id |-> r.full_name, type |-> t, reason |-> w,
       repository |-> r] : r \in Repositories, t \in SubjectTypes,
                           w \in Reasons }
BareString == [kind |-> "str"]
NoNotification == [kind |-> "none"]
Payloads == Notifications \cup {BareString}

----------------------------------------------------------------------------
(* Conversions of a time *)

(* str(next_since): the float rounded to 12 significant digits *)
str(t) == ((t + StrStep \div 2) \div StrStep) * StrStep

(* float(next_since_file.read().split()[0]) *)
float(text) == text

(* int(args.since.strftime('%s')): whole seconds *)
int_seconds(t) == (t \div MsPerSec) * MsPerSec

(* since_qs that rounds up to the next whole second *)
since_qs_NextSecond(s) ==
    IF s = None THEN None ELSE (s + MsPerSec - 1) \div MsPerSec

(* since_qs: '' for None, else '&since=' + strftime('%FT%TZ', gmtime(since)), *)
(* the whole second the time lies in                                          *)
since_qs(s) == IF s = None THEN None ELSE s \div MsPerSec

----------------------------------------------------------------------------
(* Repository patterns *)

(* repo_pattern_match that always takes the short name *)
repo_pattern_match_NameOnly(notification, pattern) ==
    fnmatchcase(notification.repository.name, pattern)

repo_pattern_match(notification, pattern) ==
    LET name == IF In("/", pattern) THEN notification.repository.full_name
                ELSE notification.repository.name
    IN  fnmatchcase(name, pattern)

repo_list_match(notification, patterns) ==
    \E i \in 1..Len(patterns) : repo_pattern_match(notification, patterns[i])

(* FilterChain whose exclude test is an `elif` of the include test: a match *)
(* of the include list skips the exclude list                               *)
FilterChain_IncludeWins(notification, include, exclude) ==
    IF notification.kind # "dict" THEN "TypeError"
    ELSE IF notification.type = "Release" THEN "release"
    ELSE IF include # << >> /\ ~repo_list_match(notification, include)
         THEN "include"
    ELSE IF ~(include # << >>) /\ repo_list_match(notification, exclude)
         THEN "exclude"
    ELSE IF notification.reason # "subscribed" THEN "reason"
    ELSE "pass"

(* FilterChain whose `except TypeError` skips the notification (`continue`) *)
(* instead of raising again                                                 *)
FilterChain_SkipTypeError(notification, include, exclude) ==
    IF notification.kind # "dict" THEN "skipped"
    ELSE IF notification.type = "Release" THEN "release"
    ELSE IF include # << >> /\ ~repo_list_match(notification, include)
         THEN "include"
    ELSE IF repo_list_match(notification, exclude) THEN "exclude"
    ELSE IF notification.reason # "subscribed" THEN "reason"
    ELSE "pass"

(* FilterChain without its first test (a Release is treated as any other   *)
(* subject type)                                                            *)
FilterChain_NoRelease(notification, include, exclude) ==
    IF notification.kind # "dict" THEN "TypeError"
    ELSE IF include # << >> /\ ~repo_list_match(notification, include)
         THEN "include"
    ELSE IF repo_list_match(notification, exclude) THEN "exclude"
    ELSE IF notification.reason # "subscribed" THEN "reason"
    ELSE "pass"

(* FilterChain without its last test (the reason is never looked at) *)
FilterChain_AnyReason(notification, include, exclude) ==
    IF notification.kind # "dict" THEN "TypeError"
    ELSE IF notification.type = "Release" THEN "release"
    ELSE IF include # << >> /\ ~repo_list_match(notification, include)
         THEN "include"
    ELSE IF repo_list_match(notification, exclude) THEN "exclude"
    ELSE "pass"

(* The filter chain of gunsub's loop body: the first branch that leaves the  *)
(* loop body, or "pass" when the notification reaches the subscription       *)
(* lookup.                                                                   *)
FilterChain(notification, include, exclude) ==
    IF notification.kind # "dict" THEN "TypeError"
    ELSE IF notification.type = "Release" THEN "release"
    ELSE IF include # << >> /\ ~repo_list_match(notification, include)
         THEN "include"
    ELSE IF repo_list_match(notification, exclude) THEN "exclude"
    ELSE IF notification.reason # "subscribed" THEN "reason"
    ELSE "pass"

(* '/notifications/threads/{0}/subscription'.format(notification['id']) *)
subscription_uri(notification) == notification.id

(* send_email without its `else` branch: every subject type is mailed *)
Emailable_Any == SubjectTypes

(* the subject types send_email knows *)
Emailable == {"PullRequest", "Issue", "Commit"}

----------------------------------------------------------------------------
(* Initial state: the process is about to run parse_args().  The checkpoint *)
(* file, when it exists, holds what an earlier run wrote.  The runs checked *)
(* are the single-shot cold starts under every pattern configuration, and   *)
(* under one pattern configuration every combination of the other flags and *)
(* of the checkpoint file.                                                  *)

Unparsed == [parsed |-> FALSE]

(* an optional address: None (the flag is absent) or the flag's value *)
NoAddress == "None"
Address == "user@example.com"
comma_list == noisy_repo \o <<",">> \o <<"o","t","h","e","r","/","*">>

Argvs ==
    [dryrun : BOOLEAN, interval : {None, 1},
     include : {<< >>, <<widgets>>}, exclude : {<< >>},
     since : {None, 4}, email_from : {NoAddress, Address},
     email_to : {NoAddress, Address}]

(* os.environ: the credentials are set; the pattern lists may be; the poll *)
(* interval is not                                                         *)
Credentials == [GITHUB_USER |-> <<"u">>, GITHUB_PASSWORD |-> <<"p">>]
Environs ==
    { Credentials,
      [GITHUB_USER |-> <<"u">>, GITHUB_PASSWORD |-> <<"p">>,
       GITHUB_INCLUDE_REPOS |-> octo_star],
      [GITHUB_USER |-> <<"u">>, GITHUB_PASSWORD |-> <<"p">>,
       GITHUB_EXCLUDE_REPOS |-> comma_list],
      [GITHUB_USER |-> <<"u">>, GITHUB_PASSWORD |-> <<"p">>,
       GITHUB_INCLUDE_REPOS |-> octo_star,
       GITHUB_EXCLUDE_REPOS |-> comma_list] }

StateFiles == {None, str(EarlierStart)}

PatternRuns ==
    { r \in [argv : Argvs, environ : Environs, stateFile : StateFiles] :
        /\ r.argv.interval = None
        /\ r.argv.since = None
        /\ r.stateFile = None }

LoopRuns ==
    { r \in [argv : Argvs, environ : Environs, stateFile : StateFiles] :
        /\ r.argv.include = << >>
        /\ "GITHUB_INCLUDE_REPOS" \in DOMAIN r.environ
        /\ "GITHUB_EXCLUDE_REPOS" \notin DOMAIN r.environ }

Init ==
    /\ \E r \in PatternRuns \cup LoopRuns :
         /\ argv = r.argv
         /\ environ = r.environ
         /\ stateFile = r.stateFile
    /\ args = Unparsed
    /\ pc = "parse_args"
    /\ clock = StartClock
    /\ since = None
    /\ next_since = None
    /\ page = 0
    /\ remaining = 0
    /\ cur = NoNotification
    /\ count = 0
    /\ verdict = "none"
    /\ effects = << >>
    /\ query = [page |-> 0, since |-> None]
    /\ outcome = "none"

----------------------------------------------------------------------------
(* parse_args *)

(* os.environ.get(key, default) *)
get(key, default) == IF key \in DOMAIN environ THEN environ[key] ELSE default

(* argparse: action='store' keeps the flag's value, or the default without  *)
(* the flag; action='append' appends the flags' values to the default list   *)
store(flag, default) == IF flag = None THEN default ELSE flag
append(flags, default) == default \o flags

(* truth value of an optional string *)
truthy(x) == x # NoAddress

(* parse_args without the test of the two email options *)
ParseArgs_NoValidation ==
    /\ pc = "parse_args"
    /\ LET include_default == split(get("GITHUB_INCLUDE_REPOS", Empty))
           exclude_default == split(get("GITHUB_EXCLUDE_REPOS", Empty))
           ns == [parsed     |-> TRUE,
                  dryrun     |-> argv.dryrun,
                  interval   |-> store(argv.interval,
                                       get("GITHUB_POLL_INTERVAL", 0)),
                  include    |-> append(argv.include, include_default),
                  exclude    |-> append(argv.exclude, exclude_default),
                  since      |-> argv.since,
                  email_from |-> argv.email_from,
                  email_to   |-> argv.email_to]
       IN  /\ args' = ns
           /\ pc' = "main"
    /\ UNCHANGED <<argv, environ, clock, stateFile, since, next_since, page,
                   remaining, cur, count, verdict, effects, query, outcome>>

(* the module's parse_args(): the Namespace, or sys.exit(message) *)
ParseArgs ==
    /\ pc = "parse_args"
    /\ LET include_default == split(get("GITHUB_INCLUDE_REPOS", Empty))
           exclude_default == split(get("GITHUB_EXCLUDE_REPOS", Empty))
           ns == [parsed     |-> TRUE,
                  dryrun     |-> argv.dryrun,
                  interval   |-> store(argv.interval,
                                       get("GITHUB_POLL_INTERVAL", 0)),
                  include    |-> append(argv.include, include_default),
                  exclude    |-> append(argv.exclude, exclude_default),
                  since      |-> argv.since,
                  email_from |-> argv.email_from,
                  email_to   |-> argv.email_to]
           given == (IF truthy(ns.email_from) THEN 1 ELSE 0)
                    + (IF truthy(ns.email_to) THEN 1 ELSE 0)
       IN  /\ args' = ns
           /\ pc' = IF given = 1 THEN "usage" ELSE "main"
    /\ UNCHANGED <<argv, environ, clock, stateFile, since, next_since, page,
                   remaining, cur, count, verdict, effects, query, outcome>>

----------------------------------------------------------------------------
(* main, before the loop: the first `since` *)

(* main that reads the checkpoint file first and --since only without one *)
MainInit_FileFirst ==
    /\ pc = "main"
    /\ since' = IF stateFile # None THEN float(stateFile)
                ELSE IF args.since # None THEN int_seconds(args.since)
                ELSE None
    /\ pc' = "loop"
    /\ UNCHANGED <<argv, environ, args, clock, stateFile, next_since, page,
                   remaining, cur, count, verdict, effects, query, outcome>>

MainInit ==
    /\ pc = "main"
    /\ since' = IF args.since # None THEN int_seconds(args.since)
                ELSE IF stateFile # None THEN float(stateFile)
                ELSE None
    /\ pc' = "loop"
    /\ UNCHANGED <<argv, environ, args, clock, stateFile, next_since, page,
                   remaining, cur, count, verdict, effects, query, outcome>>

(* the loop left after every iteration *)
AfterIteration_Break == "exit"

(* the loop never left *)
AfterIteration_NoBreak == "sleep"

(* `if not interval: break`, else on to time.sleep(interval) *)
AfterIteration == IF args.interval = 0 THEN "exit" ELSE "sleep"

(* top of `while True`: next_since = time.time(), then gunsub(...) is called *)
(* and sets count = 0 and starts iterpage() at page 1                        *)
IterStart ==
    /\ pc = "loop"
    /\ next_since' = clock
    /\ page' = 1
    /\ count' = 0
    /\ remaining' = 0
    /\ cur' = NoNotification
    /\ verdict' = "none"
    /\ effects' = << >>
    /\ pc' = "page"
    /\ UNCHANGED <<argv, environ, args, clock, stateFile, since, query,
                   outcome>>

----------------------------------------------------------------------------
(* gunsub *)

(* Continue whose page number never advances *)
Continue_SamePage(rem) ==
    /\ pc' = IF rem > 0 THEN "notif" ELSE "page"
    /\ page' = page

(* `continue`, or the end of the loop body: the next notification of the    *)
(* page, or, the page exhausted, iterpage() yields the next page number     *)
Continue(rem) ==
    /\ pc' = IF rem > 0 THEN "notif" ELSE "page"
    /\ page' = IF rem > 0 THEN page ELSE page + 1

(* req('/notifications?all=true&page={0}{1}'.format(page, since_qs)): the   *)
(* request takes time; it raises, or the service answers with a page of     *)
(* notifications, empty past its last page; an empty page breaks the loop   *)
(* and gunsub returns                                                       *)
FetchPage ==
    /\ pc = "page"
    /\ query' = [page |-> page, since |-> since_qs(since)]
    /\ clock' \in {t \in Instants : t >= clock}
    /\ \/ /\ pc' = "except"
          /\ UNCHANGED remaining
       \/ \E n \in 0..MaxPerPage :
            /\ page > MaxPages => n = 0
            /\ remaining' = n
            /\ pc' = IF n = 0 THEN "checkpoint" ELSE "notif"
    /\ UNCHANGED <<argv, environ, args, stateFile, since, next_since,
                   page, cur, count, verdict, effects, outcome>>

(* the loop body up to the subscription lookup: the next notification of    *)
(* the page goes through the filter chain                                   *)
Examine ==
    /\ pc = "notif"
    /\ remaining > 0
    /\ \E n \in Payloads :
         LET v == FilterChain(n, args.include, args.exclude) IN
         /\ cur' = n
         /\ verdict' = v
         /\ remaining' = remaining - 1
         /\ effects' = << >>
         /\ CASE v = "TypeError" -> pc' = "except" /\ UNCHANGED page
              [] v = "pass"      -> pc' = "lookup" /\ UNCHANGED page
              [] OTHER           -> Continue(remaining - 1)
    /\ UNCHANGED <<argv, environ, args, clock, stateFile, since, next_since,
                   count, query, outcome>>

(* Lookup with the test inverted (`if 'url' in subscription`) *)
Lookup_Inverted ==
    /\ pc = "lookup"
    /\ \E r \in {"url", "nourl", "raise"} :
         /\ effects' = Append(effects, [op |-> "GET",
                                        id |-> subscription_uri(cur),
                                        res |-> r])
         /\ CASE r = "raise" -> pc' = "except" /\ UNCHANGED page
              [] r = "url"   -> pc' = "unsub" /\ UNCHANGED page
              [] r = "nourl" -> Continue(remaining)
    /\ UNCHANGED <<argv, environ, args, clock, stateFile, since, next_since,
                   remaining, cur, count, verdict, query, outcome>>

(* subscription, msg = req(subscription_uri): the request raises, or the    *)
(* record has a 'url' (explicit subscription) or has none                   *)
Lookup ==
    /\ pc = "lookup"
    /\ \E r \in {"url", "nourl", "raise"} :
         /\ effects' = Append(effects, [op |-> "GET",
                                        id |-> subscription_uri(cur),
                                        res |-> r])
         /\ CASE r = "raise" -> pc' = "except" /\ UNCHANGED page
              [] r = "nourl" -> pc' = "unsub" /\ UNCHANGED page
              [] r = "url"   -> Continue(remaining)
    /\ UNCHANGED <<argv, environ, args, clock, stateFile, since, next_since,
                   remaining, cur, count, verdict, query, outcome>>

(* body of the unsubscribe request *)
PutBody == [subscribed |-> FALSE, ignored |-> TRUE]

(* Unsubscribe without the dry-run test *)
Unsubscribe_IgnoreDryrun ==
    /\ pc = "unsub"
    /\ \E r \in {"ack", "noack", "raise"} :
         /\ effects' = Append(effects, [op |-> "PUT",
                                        id |-> subscription_uri(cur),
                                        body |-> PutBody,
                                        res |-> r])
         /\ pc' = IF r = "raise" THEN "except" ELSE "email"
    /\ UNCHANGED <<argv, environ, args, clock, stateFile, since, next_since,
                   page, remaining, cur, count, verdict, query, outcome>>

(* Unsubscribe whose PUT is wrapped in a handler that swallows the error *)
Unsubscribe_RaiseSwallowed ==
    /\ pc = "unsub"
    /\ IF ~args.dryrun
       THEN \E r \in {"ack", "noack", "raise"} :
              /\ effects' = Append(effects, [op |-> "PUT",
                                             id |-> subscription_uri(cur),
                                             body |-> PutBody,
                                             res |-> r])
              /\ pc' = "email"
       ELSE /\ pc' = "email"
            /\ UNCHANGED effects
    /\ UNCHANGED <<argv, environ, args, clock, stateFile, since, next_since,
                   page, remaining, cur, count, verdict, query, outcome>>

(* Unsubscribe that raises on a result without 'subscribed' *)
Unsubscribe_NoAckRaises ==
    /\ pc = "unsub"
    /\ IF ~args.dryrun
       THEN \E r \in {"ack", "noack", "raise"} :
              /\ effects' = Append(effects, [op |-> "PUT",
                                             id |-> subscription_uri(cur),
                                             body |-> PutBody,
                                             res |-> r])
              /\ pc' = IF r = "ack" THEN "email" ELSE "except"
       ELSE /\ pc' = "email"
            /\ UNCHANGED effects
    /\ UNCHANGED <<argv, environ, args, clock, stateFile, since, next_since,
                   page, remaining, cur, count, verdict, query, outcome>>

(* `if not args.dryrun:` req(subscription_uri, 'PUT', ...): the request     *)
(* raises, or its result has 'subscribed' or (a warning) has not.  The test *)
(* reads the module global `args`, the Namespace main was called with.      *)
Unsubscribe ==
    /\ pc = "unsub"
    /\ IF ~args.dryrun
       THEN \E r \in {"ack", "noack", "raise"} :
              /\ effects' = Append(effects, [op |-> "PUT",
                                             id |-> subscription_uri(cur),
                                             body |-> PutBody,
                                             res |-> r])
              /\ pc' = IF r = "raise" THEN "except" ELSE "email"
       ELSE /\ pc' = "email"
            /\ UNCHANGED effects
    /\ UNCHANGED <<argv, environ, args, clock, stateFile, since, next_since,
                   page, remaining, cur, count, verdict, query, outcome>>

(* Email whose send_email raises for a subject type it does not know *)
Email_UnknownTypeRaises ==
    /\ pc = "email"
    /\ IF truthy(args.email_from)
       THEN IF cur.type \in Emailable
            THEN \E r \in {"sent", "raise"} :
                   /\ effects' = Append(effects, [op |-> "EMAIL",
                                                  id |-> cur.id,
                                                  to |-> args.email_to,
                                                  res |-> r])
                   /\ IF r = "raise"
                      THEN pc' = "except" /\ UNCHANGED <<page, count>>
                      ELSE count' = count + 1 /\ Continue(remaining)
            ELSE /\ pc' = "except"
                 /\ UNCHANGED <<effects, page, count>>
       ELSE /\ UNCHANGED effects
            /\ count' = count + 1
            /\ Continue(remaining)
    /\ UNCHANGED <<argv, environ, args, clock, stateFile, since, next_since,
                   remaining, cur, verdict, query, outcome>>

(* `if email_from:` send_email(...), which returns without sending for a    *)
(* subject type it does not know and else sends, or raises; then count += 1 *)
Email ==
    /\ pc = "email"
    /\ IF truthy(args.email_from) /\ cur.type \in Emailable
       THEN \E r \in {"sent", "raise"} :
              /\ effects' = Append(effects, [op |-> "EMAIL",
                                             id |-> cur.id,
                                             to |-> args.email_to,
                                             res |-> r])
              /\ IF r = "raise"
                 THEN pc' = "except" /\ UNCHANGED <<page, count>>
                 ELSE count' = count + 1 /\ Continue(remaining)
       ELSE /\ UNCHANGED effects
            /\ count' = count + 1
            /\ Continue(remaining)
    /\ UNCHANGED <<argv, environ, args, clock, stateFile, since, next_since,
                   remaining, cur, verdict, query, outcome>>

----------------------------------------------------------------------------
(* main, the rest of the loop body *)

(* Checkpoint that writes the time at which gunsub returned *)
Checkpoint_CompletionTime ==
    /\ pc = "checkpoint"
    /\ \/ /\ ~args.dryrun
          /\ pc' = "except"
          /\ UNCHANGED <<stateFile, since, outcome>>
       \/ /\ stateFile' = IF args.dryrun THEN stateFile ELSE str(clock)
          /\ since' = clock
          /\ outcome' = "ok"
          /\ pc' = AfterIteration
    /\ UNCHANGED <<argv, environ, args, clock, next_since, page, remaining,
                   cur, count, verdict, effects, query>>

(* gunsub returned: `if not args.dryrun:` the checkpoint file is opened     *)
(* (which may raise) and str(next_since) written; since = next_since        *)
Checkpoint ==
    /\ pc = "checkpoint"
    /\ \/ /\ ~args.dryrun
          /\ pc' = "except"
          /\ UNCHANGED <<stateFile, since, outcome>>
       \/ /\ stateFile' = IF args.dryrun THEN stateFile ELSE str(next_since)
          /\ since' = next_since
          /\ outcome' = "ok"
          /\ pc' = AfterIteration
    /\ UNCHANGED <<argv, environ, args, clock, next_since, page, remaining,
                   cur, count, verdict, effects, query>>

(* Except with `since = next_since` moved after the try statement *)
Except_Advance ==
    /\ pc = "except"
    /\ outcome' = "raised"
    /\ since' = next_since
    /\ pc' = AfterIteration
    /\ UNCHANGED <<argv, environ, args, clock, stateFile, next_since,
                   page, remaining, cur, count, verdict, effects, query>>

(* `except:` log.exception('Error in main loop!') *)
Except ==
    /\ pc = "except"
    /\ outcome' = "raised"
    /\ pc' = AfterIteration
    /\ UNCHANGED <<argv, environ, args, clock, stateFile, since, next_since,
                   page, remaining, cur, count, verdict, effects, query>>

(* the instants at which a wait of d ms that starts now may end *)
Later(d) ==
    IF \E t \in Instants : t >= clock + d
    THEN {t \in Instants : t >= clock + d}
    ELSE {t \in Instants : \A u \in Instants : u <= t}

(* time.sleep(interval), then the next turn of `while True` *)
Sleep ==
    /\ pc = "sleep"
    /\ clock' \in Later(args.interval * MsPerSec)
    /\ pc' = "loop"
    /\ UNCHANGED <<argv, environ, args, stateFile, since, next_since, page,
                   remaining, cur, count, verdict, effects, query, outcome>>

Next ==
    \/ ParseArgs
    \/ MainInit
    \/ IterStart
    \/ FetchPage
    \/ Examine
    \/ Lookup
    \/ Unsubscribe
    \/ Email
    \/ Checkpoint
    \/ Except
    \/ Sleep

Spec == Init /\ [][Next]_vars

(* The steps of main that need no collaborator are taken: the process is    *)
(* sequential and never stops on its own between two statements.            *)
FairSpec ==
    /\ Spec
    /\ WF_vars(IterStart)
    /\ WF_vars(Checkpoint)
    /\ WF_vars(Except)
    /\ WF_vars(Sleep)

(* One step of gunsub's loops: each of them ends when a request to the      *)
(* service or to the mail server returns or raises.                         *)
GunsubStep == FetchPage \/ Examine \/ Lookup \/ Unsubscribe \/ Email

(* Every request is answered or raises: gunsub, once called, never waits    *)
(* forever.                                                                 *)
AnsweredSpec == Spec /\ WF_vars(GunsubStep)

----------------------------------------------------------------------------
(* Vocabulary of the properties *)

(* the positions inside the loop body, after the filter chain *)
Acting == {"lookup", "unsub", "email"}

(* `cur` is a notification record whose turn of the loop body has ended     *)
(* without raising                                                          *)
Finished == cur.kind = "dict" /\ pc \in {"notif", "page", "checkpoint"}

(* the events of `cur` with the given operation *)
Events(op) == {i \in DOMAIN effects : effects[i].op = op}

(* the subscription lookup of `cur` answered, with res *)
LookedUp(res) ==
    Len(effects) >= 1 /\ effects[1].op = "GET" /\ effects[1].res = res

(* an email sender/recipient pair is configured *)
EmailConfigured == truthy(args.email_from) /\ truthy(args.email_to)

----------------------------------------------------------------------------
(* C1: a notification whose reason is not exactly "subscribed" gets no      *)
(* subscription lookup, no unsubscribe PUT and no email, whatever the       *)
(* patterns are: the loop body never goes past the filter chain for it and  *)
(* nothing is issued for it.                                                *)
C1_OtherReasonUntouched ==
    (cur.kind = "dict" /\ cur.reason # "subscribed")
        => /\ effects = << >>
           /\ pc \notin Acting
           /\ verdict # "pass"

(* a "mentioned" notification that the patterns let through was examined    *)
C1_Witness ==
    /\ cur.kind = "dict"
    /\ cur.reason = "mentioned"
    /\ cur.type = "Issue"
    /\ verdict = "reason"
    /\ ~repo_list_match(cur, args.exclude)
    /\ pc \in {"notif", "page"}

----------------------------------------------------------------------------
(* C2, as stated: a notification that passes the filter chain and whose     *)
(* lookup returns a record without 'url' gets exactly one unsubscribe PUT   *)
(* outside dry-run and, an email pair configured, exactly one email.        *)
C2_Original ==
    (Finished /\ verdict = "pass" /\ LookedUp("nourl"))
        => /\ ~args.dryrun => Cardinality(Events("PUT")) = 1
           /\ EmailConfigured => Cardinality(Events("EMAIL")) = 1

(* C2, amended: such a notification gets exactly one unsubscribe PUT        *)
(* (subscribed=false, ignored=true, on its own thread) outside dry-run and  *)
(* none in dry-run; when the PUT did not raise, it gets exactly one email   *)
(* if an email pair is configured and its subject type is PullRequest,      *)
(* Issue or Commit, and no email otherwise.                                 *)
C2_OnePutOneEmailIfEmailable ==
    (cur.kind = "dict" /\ verdict = "pass" /\ LookedUp("nourl")
     /\ pc \in {"notif", "page", "checkpoint", "except"})
        => /\ Cardinality(Events("PUT")) = IF args.dryrun THEN 0 ELSE 1
           /\ \A i \in Events("PUT") :
                /\ i = 2
                /\ effects[i].id = cur.id
                /\ effects[i].body = [subscribed |-> FALSE, ignored |-> TRUE]
           /\ (\A i \in Events("PUT") : effects[i].res # "raise")
                => Cardinality(Events("EMAIL")) =
                     IF EmailConfigured /\ cur.type \in {"PullRequest", "Issue", "Commit"}
                     THEN 1 ELSE 0
           /\ \A i \in Events("EMAIL") :
                effects[i].id = cur.id /\ effects[i].to = args.email_to

(* an Issue was unsubscribed from and mailed about *)
C2_Witness ==
    /\ Finished
    /\ verdict = "pass"
    /\ cur.type = "Issue"
    /\ ~args.dryrun
    /\ EmailConfigured
    /\ Len(effects) = 3
    /\ effects[1].res = "nourl"
    /\ effects[2].op = "PUT"
    /\ effects[3].op = "EMAIL" /\ effects[3].res = "sent"

----------------------------------------------------------------------------
(* C3: an unsubscribe PUT directly follows a lookup of the same thread that *)
(* returned a record without 'url'; once the lookup of a notification       *)
(* returned a record with 'url', nothing more is issued for it and the      *)
(* counter stays as it is.                                                  *)
C3_PutOnlyAfterImplicitLookup ==
    /\ [](\A i \in Events("PUT") :
            /\ i > 1
            /\ effects[i - 1].op = "GET"
            /\ effects[i - 1].id = effects[i].id
            /\ effects[i - 1].res = "nourl")
    /\ [](LookedUp("url") => Len(effects) = 1 /\ pc \notin Acting)
    /\ [][LookedUp("url")' => count' = count]_vars

(* an explicit subscription was found for a notification that passed the    *)
(* filter chain, in a run that would have unsubscribed and mailed           *)
C3_Witness ==
    /\ Finished
    /\ verdict = "pass"
    /\ LookedUp("url")
    /\ ~args.dryrun
    /\ EmailConfigured
    /\ cur.type = "Issue"

----------------------------------------------------------------------------
(* C4: in dry-run mode no unsubscribe PUT is ever issued and the checkpoint *)
(* file never changes, over all iterations; a notification that passed the  *)
(* filter chain and has no explicit subscription is still counted, and      *)
(* still gets the email it gets outside dry-run (one, when an email pair is *)
(* configured and send_email knows the subject type).                       *)
C4_DryRunWritesNothing ==
    /\ []((args.parsed /\ args.dryrun) => Events("PUT") = {})
    /\ [][(args.parsed /\ args.dryrun) => stateFile' = stateFile]_vars
    /\ []((args.parsed /\ args.dryrun /\ Finished /\ verdict = "pass"
           /\ LookedUp("nourl"))
            => Cardinality(Events("EMAIL")) =
                 IF EmailConfigured /\ cur.type \in {"PullRequest", "Issue", "Commit"}
                 THEN 1 ELSE 0)
    /\ [][(args.parsed /\ args.dryrun /\ pc = "unsub")
            => pc' \in {"unsub", "email"}]_vars
    /\ [][(args.parsed /\ args.dryrun /\ pc = "email"
           /\ pc' \in {"notif", "page"})
            => count' = count + 1]_vars

(* a dry-run iteration completed after it counted two notifications and     *)
(* mailed about the second                                                  *)
C4_Witness ==
    /\ args.parsed
    /\ args.dryrun
    /\ outcome = "ok"
    /\ pc = "sleep"
    /\ count = 2
    /\ Len(effects) = 2
    /\ effects[1].res = "nourl"
    /\ effects[2].op = "EMAIL" /\ effects[2].res = "sent"

----------------------------------------------------------------------------
(* C5: outside dry-run, an iteration that completes without raising leaves  *)
(* in the checkpoint file the time taken at its start (as str() renders     *)
(* it), whatever time it is when it completes and whether or not anything   *)
(* was unsubscribed; that time is taken at the top of the loop, before any  *)
(* request of the iteration.                                                *)
C5_CheckpointIsStartTime ==
    /\ []((args.parsed /\ ~args.dryrun /\ outcome = "ok"
           /\ pc \in {"sleep", "exit", "loop"})
            => stateFile = str(next_since))
    /\ [][(args.parsed /\ ~args.dryrun /\ pc = "checkpoint"
           /\ pc' \in {"sleep", "exit"})
            => stateFile' = str(next_since) /\ outcome' = "ok"]_vars
    /\ [][next_since' # next_since
            => pc = "loop" /\ next_since' = clock /\ query' = query]_vars

(* an iteration that unsubscribed from nothing completed at a later time    *)
(* than it started, and the file holds the start time                       *)
C5_Witness ==
    /\ args.parsed
    /\ ~args.dryrun
    /\ outcome = "ok"
    /\ pc \in {"sleep", "exit"}
    /\ count = 0
    /\ clock > next_since
    /\ str(clock) # str(next_since)
    /\ stateFile = str(next_since)

----------------------------------------------------------------------------
(* C6: an iteration that raises leaves the checkpoint as it was: the file   *)
(* and `since` change only when an iteration completes without raising (to  *)
(* the start time of that iteration), and the first request of the          *)
(* iteration after a failed one carries the 'since' bound the failed one    *)
(* sent.                                                                    *)
C6_FailedIterationKeepsCheckpoint ==
    /\ [][(stateFile' # stateFile \/ since' # since)
            => \/ pc = "main"
               \/ /\ pc = "checkpoint"
                  /\ outcome' = "ok"
                  /\ since' = next_since]_vars
    /\ [][pc = "except"
            => stateFile' = stateFile /\ since' = since]_vars
    /\ [][(outcome = "raised" /\ pc = "page" /\ page = 1)
            => query'.since = query.since]_vars

(* the iteration after a failed one has sent its first request, at a later  *)
(* time, with the bound of the last completed iteration                     *)
C6_Witness ==
    /\ outcome = "raised"
    /\ pc \in {"notif", "checkpoint"}
    /\ query.page = 1
    /\ since # None
    /\ since < next_since
    /\ query.since = since_qs(since)
    /\ stateFile = str(since)

----------------------------------------------------------------------------
(* C7: in continuous mode the process never leaves the loop: an iteration   *)
(* that completed or raised goes on to one sleep of the interval (the clock *)
(* permitting), the sleep to the top of the loop and the top of the loop to *)
(* the first request of another iteration; and it does get there.           *)
Continuous == args.parsed /\ args.interval > 0

C7_ContinuousNeverStops ==
    /\ [](Continuous => pc # "exit")
    /\ [][(Continuous /\ pc \in {"checkpoint", "except"})
            => pc' \in {pc, "except", "sleep"}]_vars
    /\ [][(Continuous /\ pc = "except") => pc' \in {pc, "sleep"}]_vars
    /\ [][(pc = "sleep" /\ pc' # pc)
            => /\ pc' = "loop"
               /\ \/ clock' >= clock + args.interval * MsPerSec
                  \/ \A t \in Instants : t <= clock']_vars
    /\ [][(pc = "loop" /\ pc' # pc) => pc' = "page"]_vars
    /\ (Continuous /\ pc \in {"checkpoint", "except"}) ~> (pc = "page")

(* after an iteration that raised, the process slept for the interval and   *)
(* started another iteration                                                *)
C7_Witness ==
    /\ Continuous
    /\ outcome = "raised"
    /\ pc = "page"
    /\ page = 1
    /\ next_since >= StartClock + args.interval * MsPerSec

----------------------------------------------------------------------------
(* C8, as stated: in single-shot mode an exception raised during the        *)
(* iteration is not caught by the loop, so the run does not come to its     *)
(* normal exit after one.                                                   *)
SingleShot == args.parsed /\ args.interval = 0

C8_Original ==
    (SingleShot /\ pc = "exit") => outcome # "raised"

(* C8, amended: in single-shot mode an exception raised during the single   *)
(* iteration is caught and logged by the same handler as in continuous      *)
(* mode, the checkpoint is left as it was, and the process leaves the loop  *)
(* and exits normally; with or without an exception exactly one iteration   *)
(* runs and no sleep happens.                                               *)
C8_SingleShotCatchesAndExits ==
    /\ [](SingleShot => pc # "sleep")
    /\ [](pc = "exit" => SingleShot /\ outcome \in {"ok", "raised"})
    /\ [][(SingleShot /\ pc = "except")
            => /\ pc' \in {pc, "exit"}
               /\ stateFile' = stateFile]_vars
    /\ [][(SingleShot /\ pc = "checkpoint")
            => pc' \in {pc, "except", "exit"}]_vars
    /\ [][(SingleShot /\ pc' = "loop") => pc \in {"main", "loop"}]_vars

(* a single-shot run exited normally after its iteration raised *)
C8_Witness ==
    /\ SingleShot
    /\ pc = "exit"
    /\ outcome = "raised"
    /\ cur.kind = "dict"
    /\ Len(effects) >= 1

----------------------------------------------------------------------------
(* C9: a notification whose repository matches a pattern of the exclude     *)
(* list is rejected, with nothing issued for it, also when it matches a     *)
(* pattern of the include list.                                             *)
C9_ExcludeWins ==
    (cur.kind = "dict"
     /\ \E i \in 1..Len(args.exclude) :
          repo_pattern_match(cur, args.exclude[i]))
        => /\ verdict \in {"release", "include", "exclude"}
           /\ effects = << >>
           /\ pc \notin Acting

(* octo/noisy-repo, matched by the include pattern octo/* and the exclude   *)
(* pattern noisy-repo, was rejected by the exclude stage                    *)
C9_Witness ==
    /\ cur.kind = "dict"
    /\ cur.repository.full_name = octo_noisy
    /\ cur.reason = "subscribed"
    /\ args.include = <<octo_star>>
    /\ fnmatchcase(cur.repository.full_name, octo_star)
    /\ \E i \in 1..Len(args.exclude) : args.exclude[i] = noisy_repo
    /\ verdict = "exclude"
    /\ pc \in {"notif", "page"}

----------------------------------------------------------------------------
(* The filter chain on its own, for the claims about pattern matching: the  *)
(* process is inside an iteration, about to examine the one notification of *)
(* the first page, and its include list is any list of one or two of the    *)
(* patterns below (GITHUB_INCLUDE_REPOS gives the first, --include the      *)
(* second); nothing is excluded.                                            *)
octo_any      == <<"o","c","t","o","*">>
any_widgets   == <<"*","/">> \o widgets
w_any         == <<"w","*">>
q_idgets      == <<"?","i","d","g","e","t","s">>
star          == <<"*">>

TriedPatterns ==
    {octo_star, widgets, noisy_repo, any_widgets, w_any, q_idgets, star,
     octo_any, octo_widgets \o <<"/">>, Empty}

TriedLists ==
    {<<p>> : p \in TriedPatterns}
        \cup {<<p, q>> : p \in TriedPatterns, q \in TriedPatterns}

MatchInit ==
    /\ argv = [dryrun |-> FALSE, interval |-> None, include |-> << >>,
               exclude |-> << >>, since |-> None, email_from |-> NoAddress,
               email_to |-> NoAddress]
    /\ environ = Credentials
    /\ \E l \in TriedLists :
         args = [parsed |-> TRUE, dryrun |-> FALSE, interval |-> 0,
                 include |-> l, exclude |-> <<Empty>>, since |-> None,
                 email_from |-> NoAddress, email_to |-> NoAddress]
    /\ pc = "notif"
    /\ clock = StartClock
    /\ stateFile = None
    /\ since = None
    /\ next_since = StartClock
    /\ page = 1
    /\ remaining = 1
    /\ cur = NoNotification
    /\ count = 0
    /\ verdict = "none"
    /\ effects = << >>
    /\ query = [page |-> 1, since |-> None]
    /\ outcome = "none"

MatchSpec == MatchInit /\ [][Examine]_vars

----------------------------------------------------------------------------
(* C10: a pattern with a '/' is compared with the repository's full         *)
(* "owner/name", a pattern without one with the short name only, and a list *)
(* matches when one of its patterns does.  Which repository each pattern    *)
(* must match is written out by hand; a notification is rejected by the     *)
(* include stage exactly when no pattern of the include list is written to  *)
(* match its repository, so with the include list ["octo/*"] octo/widgets   *)
(* passes the include stage and other/widgets is rejected by it.            *)
ExpectedMatches ==
    { <<octo_star, octo_widgets>>,  <<octo_star, octo_noisy>>,
      <<widgets, octo_widgets>>,    <<widgets, other_widgets>>,
      <<noisy_repo, octo_noisy>>,
      <<any_widgets, octo_widgets>>, <<any_widgets, other_widgets>>,
      <<w_any, octo_widgets>>,      <<w_any, other_widgets>>,
      <<q_idgets, octo_widgets>>,   <<q_idgets, other_widgets>>,
      <<star, octo_widgets>>, <<star, other_widgets>>, <<star, octo_noisy>> }

C10_PatternAgainstFullOrShortName ==
    (cur.kind = "dict" /\ cur.type # "Release") =>
        /\ \A i \in 1..Len(args.include) :
             repo_pattern_match(cur, args.include[i])
                <=> <<args.include[i], cur.repository.full_name>>
                        \in ExpectedMatches
        /\ verdict = "include"
             <=> \A i \in 1..Len(args.include) :
                    <<args.include[i], cur.repository.full_name>>
                        \notin ExpectedMatches
        /\ args.include = <<octo_star>>
             => /\ cur.repository.full_name = octo_widgets
                    => verdict # "include"
                /\ cur.repository.full_name = other_widgets
                    => verdict = "include"
    
(* with the include list ["octo*", "octo/*"], whose first pattern has no    *)
(* '/' and matches no short name, octo/widgets passed the include stage     *)
C10_Witness ==
    /\ args.parsed
    /\ args.include = <<octo_any, octo_star>>
    /\ cur.kind = "dict"
    /\ cur.repository.full_name = octo_widgets
    /\ cur.type = "Issue"
    /\ cur.reason = "subscribed"
    /\ verdict = "pass"
    /\ pc = "lookup"

----------------------------------------------------------------------------
(* C11: a notification whose subject type is "Release" is rejected by the   *)
(* first test of the filter chain, whatever its reason and repository and   *)
(* whatever the patterns are: no lookup, no unsubscribe PUT and no email is *)
(* issued for it.                                                           *)
C11_ReleaseUntouched ==
    (cur.kind = "dict" /\ cur.type = "Release")
        => /\ verdict = "release"
           /\ effects = << >>
           /\ pc \notin Acting

(* a Release that every other test of the chain would have let through was  *)
(* examined: reason "subscribed", matched by the include list, not by the   *)
(* exclude list                                                             *)
C11_Witness ==
    /\ cur.kind = "dict"
    /\ cur.type = "Release"
    /\ cur.reason = "subscribed"
    /\ cur.repository.full_name = octo_widgets
    /\ args.include = <<octo_star>>
    /\ args.exclude = <<Empty>>
    /\ verdict = "release"
    /\ pc \in {"notif", "page"}

----------------------------------------------------------------------------
(* C12: nothing is missed between consecutive successful iterations.  A     *)
(* successful iteration n keeps as `since` the time it started at, nothing  *)
(* changes `since` until iteration n+1 requests its pages, and the bound    *)
(* those requests carry is not after it: every instant at or after the      *)
(* start of iteration n lies at or after the bound of iteration n+1.        *)
C12_Step ==
    /\ (pc = "checkpoint" /\ pc' \notin {"checkpoint", "except"})
           => since' = next_since
    /\ (pc \in {"sleep", "loop"}) => since' = since
    /\ (pc = "page" /\ pc' # "page" /\ outcome = "ok")
           => /\ query'.since # None
              /\ \A updated_at \in Instants :
                     updated_at >= since
                         => updated_at >= query'.since * MsPerSec

----------------------------------------------------------------------------
(* C13: the `since` of the first iteration.  With --since it is the value   *)
(* of the command line (in whole seconds), whether or not a checkpoint file *)
(* exists; without --since and with a checkpoint file it is the timestamp   *)
(* the file holds; with neither there is no bound and the requests carry no *)
(* `since` parameter.                                                       *)
FirstIterationRequested == outcome = "none" /\ query.page >= 1

C13_FirstSince ==
    FirstIterationRequested
        => /\ argv.since # None
                  => /\ since = (argv.since \div MsPerSec) * MsPerSec
                     /\ query.since = argv.since \div MsPerSec
           /\ (argv.since = None /\ stateFile # None)
                  => /\ since = stateFile
                     /\ query.since = stateFile \div MsPerSec
           /\ (argv.since = None /\ stateFile = None)
                  => /\ since = None
                     /\ query.since = None

(* --since was given while a checkpoint file with another timestamp        *)
(* exists, and the first page was requested with the bound of --since       *)
C13_Witness ==
    /\ FirstIterationRequested
    /\ argv.since # None
    /\ stateFile # None
    /\ query.since # stateFile \div MsPerSec
    /\ query.since = 0
    /\ pc = "notif"

----------------------------------------------------------------------------
(* C14: with exactly one of --email-from and --email-to the run ends at     *)
(* the validation of the arguments, before anything is processed: no        *)
(* notification request, no lookup, no PUT, no email, and the checkpoint    *)
(* file is left as it was found.                                            *)
OneEmailOption == truthy(argv.email_from) # truthy(argv.email_to)

C14_Step ==
    /\ (pc = "parse_args" /\ OneEmailOption) => pc' = "usage"
    /\ pc = "usage" => pc' = "usage"
    /\ OneEmailOption
           => /\ query' = [page |-> 0, since |-> None]
              /\ effects' = << >>
              /\ cur' = NoNotification
              /\ stateFile' = stateFile
              /\ next_since' = None
              /\ outcome' = "none"

C14_OneEmailOptionRejected == [][C14_Step]_vars

(* the run was refused with a sender and no recipient, with a checkpoint    *)
(* file present and untouched                                               *)
C14_Witness ==
    /\ pc = "usage"
    /\ args.parsed
    /\ args.email_from = Address
    /\ args.email_to = NoAddress
    /\ stateFile = str(EarlierStart)
    /\ query.page = 0

----------------------------------------------------------------------------
(* C15: within an iteration the pages are requested in the order 1, 2, 3,   *)
(* ...: the first request is for page 1, the next page number is taken only *)
(* when every notification of the page before has had its turn, an empty    *)
(* page ends the requests of the iteration, and, the service answering      *)
(* every request and returning an empty page at some page number, the       *)
(* iteration ends.                                                          *)
InBody == {"notif", "lookup", "unsub", "email"}

C15_Step ==
    /\ (pc = "loop" /\ pc' = "page") => page' = 1
    /\ (pc = "page" /\ pc' # "page") => query'.page = page
    /\ (pc \in InBody /\ pc' = "page")
           => /\ remaining' = 0
              /\ query.page = page
              /\ page' = page + 1
    /\ page' # page => (pc = "loop" \/ (pc \in InBody /\ pc' = "page"))
    /\ (pc = "page" /\ pc' = "notif") => remaining' > 0
    /\ (pc = "page" /\ pc' \notin {"page", "except"} /\ remaining' = 0)
           => pc' = "checkpoint"
    /\ pc = "checkpoint" => pc' \notin {"page"} \cup InBody

C15_PagesInOrderUntilEmpty ==
    /\ [][C15_Step]_vars
    /\ (pc = "page") ~> (pc \in {"checkpoint", "except"})

(* page 1 held two notifications, both unsubscribed from, page 2 was        *)
(* requested after them and came back empty, and gunsub returned            *)
C15_Witness ==
    /\ pc = "checkpoint"
    /\ query.page = 2
    /\ page = 2
    /\ count = 2
    /\ remaining = 0

----------------------------------------------------------------------------
(* C16: a payload that is not a record (a bare string) ends the iteration   *)
(* with the TypeError raised again instead of being skipped: the step that  *)
(* meets it goes to the handler of the main loop and leaves the count of    *)
(* the unsubscribes already made as it is; from then on the iteration       *)
(* examines no notification, sends no request and no email, and neither     *)
(* the checkpoint file nor `since` changes.                                 *)
C16_Step ==
    /\ (pc = "notif" /\ cur'.kind = "str")
           => /\ pc' = "except"
              /\ verdict' = "TypeError"
              /\ count' = count
              /\ effects' = << >>
    /\ cur.kind = "str"
           => /\ pc \in {"except", "sleep", "exit", "loop"}
              /\ cur' \in {cur, NoNotification}
              /\ cur' = cur => (count' = count /\ page' = page)
              /\ effects' = effects
              /\ query' = query
              /\ stateFile' = stateFile
              /\ since' = since
              /\ outcome' = "raised"

C16_BareStringAbortsIteration == [][C16_Step]_vars

(* outside dry-run, the first notification of the page was unsubscribed     *)
(* from, the second payload was a bare string, and the iteration ended as   *)
(* raised with the checkpoint file still absent                             *)
C16_Witness ==
    /\ cur = BareString
    /\ verdict = "TypeError"
    /\ outcome = "raised"
    /\ pc \in {"sleep", "exit"}
    /\ ~args.dryrun
    /\ count = 1
    /\ stateFile = None

----------------------------------------------------------------------------
(* C17: for a subject type other than PullRequest, Issue and Commit only    *)
(* the email is skipped.  When the email step is reached the PUT has been   *)
(* answered (outside dry-run) or was skipped (dry-run); the step sends      *)
(* nothing, counts the thread and goes on to the next notification or page  *)
(* without raising.                                                         *)
C17_Step ==
    (pc = "email" /\ cur.type \notin {"PullRequest", "Issue", "Commit"})
        => /\ IF args.dryrun
              THEN Len(effects) = 1
              ELSE /\ Len(effects) = 2
                   /\ effects[2].op = "PUT"
                   /\ effects[2].res \in {"ack", "noack"}
           /\ effects' = effects
           /\ count' = count + 1
           /\ pc' = IF remaining > 0 THEN "notif" ELSE "page"

----------------------------------------------------------------------------
(* C18: a PUT whose response has no 'subscribed' field does not fail the    *)
(* iteration.  The step that receives it goes on to the email step; the     *)
(* email, if configured and the type is one send_email knows, is still      *)
(* sent; the thread is counted and the next notification or page follows;   *)
(* and when gunsub returns the checkpoint is written as after any other     *)
(* successful iteration.                                                    *)
NoAck ==
    /\ Len(effects) >= 2
    /\ effects[2].op = "PUT"
    /\ effects[2].res = "noack"

C18_Step ==
    /\ (pc = "unsub" /\ NoAck') => (pc' = "email" /\ count' = count)
    /\ (pc = "email" /\ NoAck)
           => /\ IF EmailConfigured
                    /\ cur.type \in {"PullRequest", "Issue", "Commit"}
                 THEN /\ Len(effects') = 3
                      /\ effects'[3].op = "EMAIL"
                      /\ effects'[3].id = cur.id
                      /\ effects'[3].res = "raise" <=> pc' = "except"
                 ELSE effects' = effects /\ pc' # "except"
              /\ pc' # "except"
                     => /\ count' = count + 1
                        /\ pc' = IF remaining > 0 THEN "notif" ELSE "page"
    /\ (pc = "checkpoint" /\ NoAck /\ pc' \notin {"checkpoint", "except"})
           => /\ outcome' = "ok"
              /\ since' = next_since
              /\ stateFile' = str(next_since)

C18_MissingAcknowledgementIsNotFatal == [][C18_Step]_vars

(* both notifications of the page were counted, the second one's PUT came   *)
(* back without 'subscribed', its email was sent all the same, and the      *)
(* iteration ended successfully with the checkpoint written                 *)
C18_Witness ==
    /\ NoAck
    /\ Len(effects) = 3
    /\ effects[3].op = "EMAIL"
    /\ effects[3].res = "sent"
    /\ count = 2
    /\ outcome = "ok"
    /\ pc \in {"sleep", "exit"}
    /\ stateFile = str(next_since)

----------------------------------------------------------------------------
(* C19: with no include pattern configured (no --include on the command     *)
(* line, GITHUB_INCLUDE_REPOS not in the environment) the include stage     *)
(* rejects nothing: every notification that is not a Release, has the       *)
(* reason "subscribed" and whose repository matches no exclude pattern      *)
(* reaches the subscription lookup, whatever its repository name.           *)
NoIncludeConfigured ==
    /\ args.parsed
    /\ argv.include = << >>
    /\ "GITHUB_INCLUDE_REPOS" \notin DOMAIN environ

C19_NoIncludeRejectsNothing ==
    (/\ NoIncludeConfigured
     /\ cur.kind = "dict"
     /\ cur.type # "Release"
     /\ cur.reason = "subscribed"
     /\ ~repo_list_match(cur, args.exclude))
        => /\ verdict # "include"
           /\ verdict = "pass"

----------------------------------------------------------------------------
(* C20: the side effects of one notification come in the fixed order        *)
(* lookup, PUT, email, all for that notification's thread, each one         *)
(* answered before the next is started, and all of them over when the next  *)
(* notification is examined; outside dry-run an email is sent only for a    *)
(* thread whose PUT was issued and did not raise.                           *)
Ops == [i \in DOMAIN effects |-> effects[i].op]

C20_LookupPutEmailInOrder ==
    args.parsed =>
        /\ \E n \in 0..3 :
             Ops = SubSeq(IF args.dryrun THEN <<"GET", "EMAIL">>
                          ELSE <<"GET", "PUT", "EMAIL">>, 1, n)
        /\ \A i \in DOMAIN effects :
             /\ effects[i].id = cur.id
             /\ i < Len(effects) => effects[i].res # "raise"
             /\ effects[i].res = "raise"
                    => pc \in {"except", "sleep", "exit", "loop"}
        /\ pc = "lookup" => Ops = << >>
        /\ pc = "unsub" => Ops = <<"GET">>
        /\ \A i \in Events("EMAIL") :
             ~args.dryrun
                 => \E j \in Events("PUT") :
                      /\ j < i
                      /\ effects[j].id = effects[i].id
                      /\ effects[j].res \in {"ack", "noack"}
        /\ (pc = "notif" /\ cur.kind = "dict" /\ verdict = "pass")
               => \/ Ops = <<"GET">> /\ LookedUp("url")
                  \/ /\ LookedUp("nourl")
                     /\ effects[Len(effects)].op
                            = IF EmailConfigured /\ cur.type \in Emailable
                              THEN "EMAIL"
                              ELSE IF args.dryrun THEN "GET" ELSE "PUT"

(* outside dry-run a thread was looked up, unsubscribed from and mailed     *)
(* about, in that order, and the second notification of the page has not    *)
(* been examined yet                                                        *)
C20_Witness ==
    /\ args.parsed
    /\ ~args.dryrun
    /\ Ops = <<"GET", "PUT", "EMAIL">>
    /\ effects[2].res = "ack"
    /\ effects[3].res = "sent"
    /\ pc = "notif"
    /\ remaining = 1
    /\ count = 1

====
